---- MODULE Spec2Model ----
(***************************************************************************)
(* Model of app.py, the Streamlit script of the Legal Document             *)
(* Demystifier.  Streamlit re-executes the whole script on every user      *)
(* interaction; st.session_state survives between executions.  One script  *)
(* run is modelled as the sequence of its blocks: the sidebar handler, the *)
(* text gate, and the four tabs.  An uncaught exception ends the run where *)
(* it is raised and keeps every session write made before it.              *)
(*                                                                         *)
(* A Python str is a sequence of tokens.  A token is one character, except *)
(* that the fixed literals the risk renderer looks for ("Severity: High",  *)
(* ...) and the labels it writes are single tokens: no other token         *)
(* contains a part of them, so substring tests and replacements on token   *)
(* sequences agree with those on the characters.                           *)
(***************************************************************************)
EXTENDS Integers, Sequences, FiniteSets, TLC

\* ---------------------------------------------------------------- bounds
MaxFiles == 2
MaxRuns == 3
MaxPieces == 4

\* ------------------------------------------------------------ str model
EmptyStr == << >>
NL == "\n"
SP == " "
DASH == "-"
Whitespace == {SP, NL}

SevHigh == "Severity: High"
SevMedium == "Severity: Medium"
SevLow == "Severity: Low"
HighLabel == "**High Risk:**"
MediumLabel == "**Medium Risk:**"
LowLabel == "**Low Risk:**"

RECURSIVE LStrip(_)
LStrip(s) ==
  IF s = EmptyStr THEN EmptyStr
  ELSE IF Head(s) \in Whitespace THEN LStrip(Tail(s)) ELSE s

RECURSIVE RStrip(_)
RStrip(s) ==
  IF s = EmptyStr THEN EmptyStr
  ELSE IF s[Len(s)] \in Whitespace THEN RStrip(SubSeq(s, 1, Len(s) - 1)) ELSE s

\* str.strip()
Strip(s) == RStrip(LStrip(s))

\* sep.join(texts)
RECURSIVE Join(_, _)
Join(sep, texts) ==
  IF texts = << >> THEN EmptyStr
  ELSE IF Len(texts) = 1 THEN texts[1]
  ELSE texts[1] \o sep \o Join(sep, Tail(texts))

\* s.split(ch): the list of the pieces between the occurrences of ch
RECURSIVE SplitAcc(_, _, _)
SplitAcc(s, ch, cur) ==
  IF s = EmptyStr THEN << cur >>
  ELSE IF Head(s) = ch THEN << cur >> \o SplitAcc(Tail(s), ch, EmptyStr)
  ELSE SplitAcc(Tail(s), ch, Append(cur, Head(s)))

Split(s, ch) == SplitAcc(s, ch, EmptyStr)

\* marker in line, for a marker that is one token
Contains(line, marker) == \E i \in 1..Len(line) : line[i] = marker

\* s.replace(old, new), old non-empty: leftmost non-overlapping occurrences
RECURSIVE Replace(_, _, _)
Replace(s, old, new) ==
  IF Len(s) < Len(old) THEN s
  ELSE IF SubSeq(s, 1, Len(old)) = old
       THEN new \o Replace(SubSeq(s, Len(old) + 1, Len(s)), old, new)
       ELSE << Head(s) >> \o Replace(Tail(s), old, new)

\* ------------------------------------------------------- text extraction
\* What page.extract_text() does on one page of a PDF.
PageText(t) == [kind |-> "text", text |-> t]
PageNone == [kind |-> "none", text |-> EmptyStr]
PageRaises == [kind |-> "raise", text |-> EmptyStr]

\* for page in reader.pages: text += page.extract_text() or ""
\* an exception leaves the loop with the text accumulated so far
RECURSIVE ReadPages(_, _)
ReadPages(pages, text) ==
  IF pages = << >> THEN text
  ELSE IF Head(pages).kind = "raise" THEN text
  ELSE ReadPages(Tail(pages), text \o Head(pages).text)

extract_text_from_pdf(pdf_file) ==
  IF ~pdf_file.opens THEN EmptyStr ELSE ReadPages(pdf_file.pages, EmptyStr)

extract_text_from_image(img_file) ==
  IF img_file.raises THEN EmptyStr ELSE img_file.text

\* True when the extraction of the file raised an exception (which is caught)
ExtractionFails(file) ==
  IF file.type = "application/pdf"
  THEN ~file.opens \/ \E i \in 1..Len(file.pages) : file.pages[i].kind = "raise"
  ELSE file.raises

Pdf(opens, pages) ==
  [type |-> "application/pdf", opens |-> opens, pages |-> pages,
   raises |-> FALSE, text |-> EmptyStr]
Image(raises, text) ==
  [type |-> "image/png", opens |-> TRUE, pages |-> << >>,
   raises |-> raises, text |-> text]

Files ==
  { Pdf(TRUE, << PageText(<< "a" >>) >>),
    Pdf(TRUE, << PageNone >>),
    Pdf(TRUE, << PageText(<< "a" >>), PageRaises >>),
    Pdf(FALSE, << >>),
    Image(FALSE, << "b" >>),
    Image(TRUE, EmptyStr) }

Batches == UNION { [1..n -> Files] : n \in 0..MaxFiles }

\* the per-file loop of the handler: one entry of all_texts per file
ExtractAll(files) ==
  [i \in 1..Len(files) |->
     IF files[i].type = "application/pdf"
     THEN extract_text_from_pdf(files[i])
     ELSE extract_text_from_image(files[i])]

\* "\n\n".join(all_texts)
JoinTexts(texts) == Join(<< NL, NL >>, texts)

HasFilesAlways(files) == TRUE

\* if uploaded_files:
HasFiles(files) == files # << >>

AnalyzeDocumentKeepsChat(sess, texts) ==
  [text_content |-> JoinTexts(texts),
   summary |-> EmptyStr,
   risk_analysis |-> EmptyStr,
   messages |-> sess.messages]

AnalyzeDocumentKeepsSummary(sess, texts) ==
  [text_content |-> JoinTexts(texts),
   summary |-> sess.summary,
   risk_analysis |-> EmptyStr,
   messages |-> << >>]

\* the stores of the handler: the new text, and the old results cleared
AnalyzeDocument(sess, texts) ==
  [text_content |-> JoinTexts(texts),
   summary |-> EmptyStr,
   risk_analysis |-> EmptyStr,
   messages |-> << >>]

\* --------------------------------------------------------- risk renderer
ClassifyLowFirst(line) ==
  IF Contains(line, SevLow) THEN "info"
  ELSE IF Contains(line, SevMedium) THEN "warning"
  ELSE IF Contains(line, SevHigh) THEN "error"
  ELSE "write"

\* if 'Severity: High' in line: ... elif ... elif ... else
Classify(line) ==
  IF Contains(line, SevHigh) THEN "error"
  ELSE IF Contains(line, SevMedium) THEN "warning"
  ELSE IF Contains(line, SevLow) THEN "info"
  ELSE "write"

RenderLine(line) ==
  LET style == Classify(line) IN
  [style |-> style,
   text |-> IF style = "error"
            THEN Replace(line, << SevHigh, SP, DASH >>, << HighLabel >>)
            ELSE IF style = "warning"
            THEN Replace(line, << SevMedium, SP, DASH >>, << MediumLabel >>)
            ELSE IF style = "info"
            THEN Replace(line, << SevLow, SP, DASH >>, << LowLabel >>)
            ELSE line]

RECURSIVE RenderLines(_)
RenderLines(lines) ==
  IF lines = << >> THEN << >>
  ELSE LET line == Strip(Head(lines)) IN
       IF line = EmptyStr THEN RenderLines(Tail(lines))
       ELSE << RenderLine(line) >> \o RenderLines(Tail(lines))

RenderRisk(risk) == RenderLines(Split(risk, NL))

\* ------------------------------------------------------- prompt builder
SummaryPrompt(doc) == [task |-> "summarize", doc |-> doc, input |-> EmptyStr]
RiskPrompt(doc) == [task |-> "risk", doc |-> doc, input |-> EmptyStr]
QaPrompt(doc, question) == [task |-> "answer", doc |-> doc, input |-> question]
ExplainPrompt(clause) == [task |-> "explain", doc |-> EmptyStr, input |-> clause]

\* --------------------------------------------------- generative client
\* model.generate_content(prompt) followed by response.text: either a
\* completion, or an exception that nothing in the script catches.
Completions == { EmptyStr, << SevHigh, SP, DASH, "x" >> }
GenOutcomes ==
  { [raised |-> TRUE, text |-> EmptyStr] }
  \cup { [raised |-> FALSE, text |-> c] : c \in Completions }

\* a completion count: 0, 1, or 2 for two or more
Counted(n) == IF n < 2 THEN n + 1 ELSE n

Questions == { << "q" >> }
Clauses == { EmptyStr, << "c" >> }
Events == { "render", "analyze", "chat", "explain" }

\* ------------------------------------------------------------------ state
VARIABLES
  text_content, summary, risk_analysis, messages,  \* st.session_state
  pc,               \* block of the script the run is at; "done" when it
                    \* has ended, "idle" between runs
  event,            \* the widget that triggered the current run
  uploaded_files,   \* the uploader's files seen by the Analyze handler
  all_texts,        \* the handler's local list
  notice,           \* what the sidebar handler reported
  tabs,             \* the run rendered the four tabs
  failed,           \* the run ended on an uncaught exception
  widgets,          \* the input widgets the latest run rendered
  rendered,         \* the risk lines tab2 wrote
  explanation,      \* the explanation tab4 wrote
  before,           \* the session state the current run started from
  runs,             \* number of script runs so far
  summary_completions, risk_completions,  \* completions returned for the
                    \* summary / risk prompt since the last stored document
  summary_doc, risk_doc, messages_doc     \* the document text embedded in
                    \* the prompt each stored completion answers

vars == << text_content, summary, risk_analysis, messages, pc, event,
           uploaded_files, all_texts, notice, tabs, failed, widgets, rendered,
           explanation, before, runs, summary_completions, risk_completions,
           summary_doc, risk_doc, messages_doc >>

session == << text_content, summary, risk_analysis, messages >>
counters == << summary_completions, risk_completions >>
docs == << summary_doc, risk_doc, messages_doc >>
display == << notice, tabs, rendered, explanation >>

Session ==
  [text_content |-> text_content, summary |-> summary,
   risk_analysis |-> risk_analysis, messages |-> messages]

Init ==
  /\ text_content = EmptyStr
  /\ summary = EmptyStr
  /\ risk_analysis = EmptyStr
  /\ messages = << >>
  /\ pc = "idle"
  /\ event = "render"
  /\ uploaded_files = << >>
  /\ all_texts = << >>
  /\ notice = "none"
  /\ tabs = FALSE
  /\ failed = FALSE
  /\ widgets = { "analyze_button" }
  /\ rendered = << >>
  /\ explanation = EmptyStr
  /\ before = [text_content |-> EmptyStr, summary |-> EmptyStr,
               risk_analysis |-> EmptyStr, messages |-> << >>]
  /\ runs = 0
  /\ summary_completions = 0
  /\ risk_completions = 0
  /\ summary_doc = EmptyStr
  /\ risk_doc = EmptyStr
  /\ messages_doc = << >>

\* A user interaction starts a run of the script.  A widget can trigger a
\* run only if the latest run rendered it.
StartRun ==
  /\ pc = "idle"
  /\ runs < MaxRuns
  /\ \E e \in Events :
       /\ e = "chat" => "chat_input" \in widgets
       /\ e = "explain" => "explain_button" \in widgets
       /\ event' = e
  /\ pc' = "sidebar"
  /\ runs' = runs + 1
  /\ before' = Session
  /\ uploaded_files' = << >>
  /\ all_texts' = << >>
  /\ notice' = "none"
  /\ tabs' = FALSE
  /\ failed' = FALSE
  /\ widgets' = { "analyze_button" }
  /\ rendered' = << >>
  /\ explanation' = EmptyStr
  /\ UNCHANGED << session, counters, docs >>

\* with st.sidebar: ... if st.button("Analyze Document"):
Sidebar ==
  /\ pc = "sidebar"
  /\ pc' = "gate"
  /\ \/ /\ event = "analyze"
        /\ \E files \in Batches :
             /\ uploaded_files' = files
             /\ IF HasFiles(files)
                THEN LET texts == ExtractAll(files)
                         s == AnalyzeDocument(Session, texts)
                     IN /\ all_texts' = texts
                        /\ text_content' = s.text_content
                        /\ summary' = s.summary
                        /\ risk_analysis' = s.risk_analysis
                        /\ messages' = s.messages
                        /\ summary_doc' = IF s.summary = EmptyStr THEN EmptyStr ELSE summary_doc
                        /\ risk_doc' = IF s.risk_analysis = EmptyStr THEN EmptyStr ELSE risk_doc
                        /\ messages_doc' = IF s.messages = << >> THEN << >> ELSE messages_doc
                        /\ notice' = IF Strip(s.text_content) = EmptyStr
                                     THEN "error" ELSE "success"
                        /\ summary_completions' = 0
                        /\ risk_completions' = 0
                ELSE /\ notice' = "warning"
                     /\ UNCHANGED << session, counters, docs, all_texts >>
     \/ /\ event # "analyze"
        /\ UNCHANGED << session, counters, docs, all_texts, uploaded_files, notice >>
  /\ UNCHANGED << event, tabs, failed, widgets, rendered, explanation, before, runs >>

\* if st.session_state.text_content: ... else: st.info(...)
TabsOffered(text) == text # EmptyStr

\* (the handler's view of the upload, uploaded_files and all_texts, is not
\* used after the sidebar block and is dropped here; when the handler stored
\* a new document, the stored state is what the tabs start from)
Gate ==
  /\ pc = "gate"
  /\ IF TabsOffered(text_content)
     THEN tabs' = TRUE /\ pc' = "tab1"
     ELSE tabs' = FALSE /\ pc' = "done"
  /\ uploaded_files' = << >>
  /\ all_texts' = << >>
  /\ before' = IF notice \in { "error", "success" } THEN Session ELSE before
  /\ UNCHANGED << session, counters, docs, event,
                  notice, failed, widgets, rendered, explanation, runs >>

\* with tab1:
Tab1 ==
  /\ pc = "tab1"
  /\ IF summary = EmptyStr
     THEN \E r \in GenOutcomes :
            IF r.raised
            THEN /\ failed' = TRUE
                 /\ pc' = "done"
                 /\ UNCHANGED << summary, summary_doc, summary_completions >>
            ELSE /\ summary' = r.text
                 /\ summary_doc' = SummaryPrompt(text_content).doc
                 /\ summary_completions' = Counted(summary_completions)
                 /\ pc' = "tab2"
                 /\ UNCHANGED failed
     ELSE /\ pc' = "tab2"
          /\ UNCHANGED << summary, summary_doc, summary_completions, failed >>
  /\ UNCHANGED << text_content, risk_analysis, messages, risk_completions,
                  risk_doc, messages_doc, event, uploaded_files, all_texts,
                  display, widgets, before, runs >>

\* with tab2:
Tab2 ==
  /\ pc = "tab2"
  /\ IF risk_analysis = EmptyStr
     THEN \E r \in GenOutcomes :
            IF r.raised
            THEN /\ failed' = TRUE
                 /\ pc' = "done"
                 /\ UNCHANGED << risk_analysis, risk_doc, risk_completions, rendered >>
            ELSE /\ risk_analysis' = r.text
                 /\ risk_doc' = RiskPrompt(text_content).doc
                 /\ risk_completions' = Counted(risk_completions)
                 /\ rendered' = RenderRisk(r.text)
                 /\ pc' = "tab3"
                 /\ UNCHANGED failed
     ELSE /\ rendered' = RenderRisk(risk_analysis)
          /\ pc' = "tab3"
          /\ UNCHANGED << risk_analysis, risk_doc, risk_completions, failed >>
  /\ UNCHANGED << text_content, summary, messages, summary_completions,
                  summary_doc, messages_doc, event, uploaded_files, all_texts,
                  notice, tabs, explanation, widgets, before, runs >>

UserMessage(content) == [role |-> "user", content |-> content]
AssistantMessage(content) == [role |-> "assistant", content |-> content]

\* with tab3:
Tab3 ==
  /\ pc = "tab3"
  /\ widgets' = widgets \cup { "chat_input" }
  /\ IF event = "chat"
     THEN \E prompt \in Questions, r \in GenOutcomes :
            /\ IF r.raised
               THEN /\ messages' = Append(messages, UserMessage(prompt))
                    /\ messages_doc' = Append(messages_doc, text_content)
                    /\ failed' = TRUE
                    /\ pc' = "done"
               ELSE /\ messages' = Append(Append(messages, UserMessage(prompt)),
                                          AssistantMessage(r.text))
                    /\ messages_doc' = Append(Append(messages_doc, text_content),
                                              QaPrompt(text_content, prompt).doc)
                    /\ pc' = "tab4"
                    /\ UNCHANGED failed
     ELSE /\ pc' = "tab4"
          /\ UNCHANGED << messages, messages_doc, failed >>
  /\ UNCHANGED << text_content, summary, risk_analysis, summary_completions,
                  risk_completions, summary_doc, risk_doc, event, uploaded_files,
                  all_texts, display, before, runs >>

\* with tab4: ... and the raw text expander after it
Tab4 ==
  /\ pc = "tab4"
  /\ pc' = "done"
  /\ widgets' = widgets \cup { "explain_button" }
  /\ IF event = "explain"
     THEN \E clause_to_explain \in Clauses :
            IF clause_to_explain # EmptyStr
            THEN \E r \in GenOutcomes :
                   IF r.raised
                   THEN failed' = TRUE /\ UNCHANGED explanation
                   ELSE explanation' = r.text /\ UNCHANGED failed
            ELSE UNCHANGED << explanation, failed >>
     ELSE UNCHANGED << explanation, failed >>
  /\ UNCHANGED << session, counters, docs, event, uploaded_files, all_texts,
                  notice, tabs, rendered, before, runs >>

\* The run is over: the page waits for the next interaction.  What the run
\* showed no longer matters, except which input widgets it rendered.
EndRun ==
  /\ pc = "done"
  /\ pc' = "idle"
  /\ event' = "render"
  /\ notice' = "none"
  /\ tabs' = FALSE
  /\ failed' = FALSE
  /\ rendered' = << >>
  /\ explanation' = EmptyStr
  /\ before' = Session
  /\ UNCHANGED << session, counters, docs, uploaded_files, all_texts, widgets, runs >>

Next == StartRun \/ Sidebar \/ Gate \/ Tab1 \/ Tab2 \/ Tab3 \/ Tab4 \/ EndRun

Spec == Init /\ [][Next]_vars

\* ------------------------------------------- the risk renderer on its own
\* Risk Analysis is model output: any text.  The texts are built from at
\* most MaxPieces pieces: the three literal prefixes, the three markers
\* without their dash, a space, a letter and a line break.
RiskPieces ==
  { << SevHigh, SP, DASH >>, << SevMedium, SP, DASH >>, << SevLow, SP, DASH >>,
    << SevHigh >>, << SevMedium >>, << SevLow >>, << SP >>, << "x" >>, << NL >> }

RECURSIVE Concat(_)
Concat(ss) == IF ss = << >> THEN EmptyStr ELSE Head(ss) \o Concat(Tail(ss))

RiskTexts == { Concat(ps) : ps \in UNION { [1..n -> RiskPieces] : n \in 0..MaxPieces } }

InitRender ==
  /\ risk_analysis \in RiskTexts
  /\ text_content = << "a" >>
  /\ summary = EmptyStr
  /\ messages = << >>
  /\ pc = "render"
  /\ event = "render"
  /\ uploaded_files = << >>
  /\ all_texts = << >>
  /\ notice = "none"
  /\ tabs = TRUE
  /\ failed = FALSE
  /\ widgets = { "analyze_button" }
  /\ rendered = << >>
  /\ explanation = EmptyStr
  /\ before = [text_content |-> << "a" >>, summary |-> EmptyStr,
               risk_analysis |-> risk_analysis, messages |-> << >>]
  /\ runs = 0
  /\ summary_completions = 0
  /\ risk_completions = 0
  /\ summary_doc = EmptyStr
  /\ risk_doc = << "a" >>
  /\ messages_doc = << >>

\* for line in st.session_state.risk_analysis.split('\n'): ...
RenderRiskLines ==
  /\ pc = "render"
  /\ rendered' = RenderRisk(risk_analysis)
  /\ pc' = "rendered"
  /\ UNCHANGED << session, counters, docs, event, uploaded_files, all_texts,
                  notice, tabs, failed, widgets, explanation, before, runs >>

NextRender == RenderRiskLines

SpecRender == InitRender /\ [][NextRender]_vars

\* ================================================================ claims
InTabs == pc \in { "tab1", "tab2", "tab3", "tab4" }
AfterAnalyze == pc = "gate" /\ event = "analyze" /\ uploaded_files # << >>
IsBlank(s) == \A i \in 1..Len(s) : s[i] \in Whitespace
NonEmpty(s) == s # EmptyStr

\* C1: while the stored Document Text is empty or whitespace-only, the
\* analyze action that stored it reports an error, and no run offers the
\* tabs or reaches a tab block (where the generation calls are made).
C1_BlankTextOffersNothing ==
  IsBlank(text_content) =>
    /\ ~tabs
    /\ ~InTabs
    /\ AfterAnalyze => notice = "error"

\* C2: between two analyze actions the Generative Client returns at most one
\* completion for the Summary and at most one for the Risk Analysis, and a
\* run that rendered the tabs to the end has exactly one of each behind it.
C2_OneCompletionPerDocument ==
  /\ summary_completions <= 1
  /\ risk_completions <= 1
  /\ (pc = "done" /\ tabs /\ ~failed) =>
       summary_completions = 1 /\ risk_completions = 1

\* C3: right after the analyze handler has stored the Document Text of a
\* batch of one or more files, Summary, Risk Analysis and Chat Transcript
\* are empty.
C3_AnalyzeResetsResults ==
  AfterAnalyze =>
    summary = EmptyStr /\ risk_analysis = EmptyStr /\ messages = << >>

C3_Witness ==
  /\ AfterAnalyze
  /\ before.summary # EmptyStr
  /\ before.risk_analysis # EmptyStr
  /\ before.messages # << >>
  /\ IsBlank(text_content)
  /\ summary = EmptyStr /\ risk_analysis = EmptyStr /\ messages = << >>

\* C4: when at least one file of the batch yields non-empty text, the stored
\* Document Text is non-empty and is the non-empty per-file texts, in upload
\* order, joined by a blank line; an empty text adds nothing.
C4_JoinsNonEmptyExtractions ==
  (AfterAnalyze /\ \E i \in 1..Len(all_texts) : all_texts[i] # EmptyStr) =>
    /\ text_content # EmptyStr
    /\ text_content = Join(<< NL, NL >>, SelectSeq(all_texts, NonEmpty))

\* C5: between runs the Chat Transcript holds, for the n questions asked on
\* the current document, 2n entries: user, assistant, user, assistant, ...
Asked == Cardinality({ i \in 1..Len(messages) : messages[i].role = "user" })

C5_TranscriptAlternates ==
  pc \in { "done", "idle" } =>
    /\ Len(messages) = 2 * Asked
    /\ \A i \in 1..Len(messages) :
         messages[i].role = IF i % 2 = 1 THEN "user" ELSE "assistant"

\* C6: the handler extracts every file of the batch, and a file whose
\* extraction raised contributes the empty string.
C6_FailedFileContributesEmpty ==
  AfterAnalyze =>
    /\ Len(all_texts) = Len(uploaded_files)
    /\ \A i \in 1..Len(uploaded_files) :
         ExtractionFails(uploaded_files[i]) => all_texts[i] = EmptyStr

\* C7: throughout and after a run triggered by the explain button, Document
\* Text, Summary, Risk Analysis and Chat Transcript are what they were when
\* the request arrived.
C7_ExplainLeavesSessionUnchanged ==
  event = "explain" => Session = before

TrimmedLines(text) ==
  LET parts == Split(text, NL)
  IN SelectSeq([i \in 1..Len(parts) |-> Strip(parts[i])], NonEmpty)

Tokens(line) == { line[i] : i \in 1..Len(line) }
Level(line) ==
  CASE SevHigh \in Tokens(line) -> "High"
    [] SevHigh \notin Tokens(line) /\ SevMedium \in Tokens(line) -> "Medium"
    [] {SevHigh, SevMedium} \cap Tokens(line) = {} /\ SevLow \in Tokens(line) -> "Low"
    [] OTHER -> "plain"
StyleOf(level) ==
  CASE level = "High" -> "error" [] level = "Medium" -> "warning"
    [] level = "Low" -> "info" [] OTHER -> "write"
PrefixOf(level) ==
  CASE level = "High" -> << SevHigh, SP, DASH >>
    [] level = "Medium" -> << SevMedium, SP, DASH >>
    [] OTHER -> << SevLow, SP, DASH >>
LabelOf(level) ==
  CASE level = "High" -> HighLabel [] level = "Medium" -> MediumLabel
    [] OTHER -> LowLabel
StartsWith(s, p) == Len(s) >= Len(p) /\ SubSeq(s, 1, Len(p)) = p
Occurs(s, p) == \E i \in 1..Len(s) : StartsWith(SubSeq(s, i, Len(s)), p)
Expand(s, label, prefix) ==
  Concat([i \in 1..Len(s) |-> IF s[i] = label THEN prefix ELSE << s[i] >>])

RenderedInOrder ==
  LET lines == TrimmedLines(risk_analysis) IN
  /\ Len(rendered) = Len(lines)
  /\ \A k \in 1..Len(lines) :
       /\ rendered[k].style = StyleOf(Level(lines[k]))
       /\ Level(lines[k]) = "plain" => rendered[k].text = lines[k]

C9_LeadingPrefixReplaced ==
  pc = "rendered" =>
    /\ RenderedInOrder
    /\ LET lines == TrimmedLines(risk_analysis) IN
       \A k \in 1..Len(lines) :
         LET level == Level(lines[k]) IN
         (level # "plain" /\ StartsWith(lines[k], PrefixOf(level))) =>
           rendered[k].text =
             << LabelOf(level) >> \o SubSeq(lines[k], 4, Len(lines[k]))

\* C9 as amended: ... a classified line is output with every occurrence of
\* the literal prefix of its level, leading or not, replaced by the label
\* (and unchanged when it has none); an unclassified line verbatim.
C9_EveryOccurrenceReplaced ==
  pc = "rendered" =>
    /\ RenderedInOrder
    /\ LET lines == TrimmedLines(risk_analysis) IN
       \A k \in 1..Len(lines) :
         LET level == Level(lines[k]) IN
         level # "plain" =>
           /\ ~Occurs(rendered[k].text, PrefixOf(level))
           /\ Expand(rendered[k].text, LabelOf(level), PrefixOf(level)) = lines[k]

C9_Witness ==
  /\ pc = "rendered"
  /\ risk_analysis = << SevHigh, SP, DASH, SevHigh, SP, DASH, NL, "x" >>
  /\ rendered = << [style |-> "error", text |-> << HighLabel, HighLabel >>],
                   [style |-> "write", text |-> << "x" >>] >>

\* C10: a stored Summary or Risk Analysis answers a prompt built from the
\* current Document Text, every Chat Transcript entry was appended under the
\* current Document Text, and any of them being non-empty implies that the
\* Document Text is non-empty.
C10_NoStaleDerivedState ==
  /\ summary # EmptyStr => summary_doc = text_content
  /\ risk_analysis # EmptyStr => risk_doc = text_content
  /\ Len(messages_doc) = Len(messages)
  /\ \A i \in 1..Len(messages_doc) : messages_doc[i] = text_content
  /\ (summary # EmptyStr \/ risk_analysis # EmptyStr \/ messages # << >>) =>
       text_content # EmptyStr

C10_Witness ==
  /\ text_content = << NL, NL, "b" >>
  /\ summary # EmptyStr /\ summary_doc = text_content
  /\ risk_analysis # EmptyStr /\ risk_doc = text_content
  /\ Len(messages) = 2 /\ messages_doc = << text_content, text_content >>
====
